---- MODULE Spec2Model ----
(***************************************************************************)
(* Model of csvChecker.py: the one-pass validator check_and_analyze (the   *)
(* csv reader it iterates, the financial rule, the date rule and the       *)
(* counters) and the Streamlit entry point main with its session cache.    *)
(* A Python str is a sequence of one-character strings; bytes are a        *)
(* sequence of byte names.                                                 *)
(***************************************************************************)
EXTENDS Integers, Sequences, FiniteSets, TLC

\* ---------------------------------------------------------------------
\* Program constants (csvChecker.py lines 34-42)
\* ---------------------------------------------------------------------
TARGET_COL_25 == 24
TARGET_COL_38 == 37
DATE_COL_9 == 8
DATE_COL_17 == 16
\* row[2] and row[10], the descriptive cells of an ErrorDetail
STORE_COL == 2
SLIP_COL == 10

\* MAX_PHYSICAL_LINES is 50_000 in the program; the model runs the same
\* comparison against a small ceiling so that inputs on both sides of it
\* are explored.
MAX_PHYSICAL_LINES == 3

\* ---------------------------------------------------------------------
\* Bounds of the explored inputs
\* ---------------------------------------------------------------------
MaxTextLen == 5
MaxDataRecords == 2

\* csv.field_size_limit() is 131072 by default; the model keeps the same test
\* with a limit just above the longest cell the wide rows below carry.
FIELD_SIZE_LIMIT == 24

None == [none |-> TRUE]
EOL == "EOL"

\* ---------------------------------------------------------------------
\* str helpers
\* ---------------------------------------------------------------------
\* "U+3000" is the ideographic space that cp932 bytes 81 40 decode to
Whitespace == {" ", "\t", "\n", "\r", "U+3000"}

RECURSIVE lstrip(_)
lstrip(s) ==
  IF s # <<>> /\ Head(s) \in Whitespace THEN lstrip(Tail(s)) ELSE s

RECURSIVE rstrip(_)
rstrip(s) ==
  IF s # <<>> /\ s[Len(s)] \in Whitespace
  THEN rstrip(SubSeq(s, 1, Len(s) - 1)) ELSE s

\* str.strip()
strip(s) == rstrip(lstrip(s))

AsciiDigits == {"0", "1", "2", "3", "4", "5", "6", "7", "8", "9"}

\* what \d of a str pattern matches: every Unicode decimal digit.  "U+FF12"
\* is FULLWIDTH DIGIT TWO (cp932 bytes 82 51), the one digit outside ASCII
\* that the model carries.
Digits == AsciiDigits \cup {"U+FF12"}

\* int() of one decimal digit
DigitVal(c) ==
  CASE c = "0" -> 0 [] c = "1" -> 1 [] c = "2" -> 2 [] c = "3" -> 3
    [] c = "4" -> 4 [] c = "5" -> 5 [] c = "6" -> 6 [] c = "7" -> 7
    [] c = "8" -> 8 [] c = "9" -> 9 [] c = "U+FF12" -> 2

\* int() of two / four digit characters
Int2(t, i) == 10 * DigitVal(t[i]) + DigitVal(t[i + 1])
Int4(t, i) == 100 * Int2(t, i) + Int2(t, i + 2)

\* ---------------------------------------------------------------------
\* csv.reader over StringIO(csv_text, newline="")
\* ---------------------------------------------------------------------
\* StringIO.readline with newline="": the line that starts at pos runs up to
\* and including the first "\n", "\r\n" or lone "\r" (or to the end of text).
LineEnd(text, pos) ==
  LET brk == {i \in pos..Len(text) : text[i] \in {"\n", "\r"}}
  IN IF brk = {} THEN Len(text)
     ELSE LET i == CHOOSE k \in brk : \A j \in brk : k <= j
          IN IF text[i] = "\r" /\ i < Len(text) /\ text[i + 1] = "\n"
             THEN i + 1 ELSE i

\* parse_save_field: the field under construction is appended to the fields
save_field(p) ==
  [p EXCEPT !.fields = Append(p.fields, p.field), !.field = <<>>]

\* parse_add_char, then the move to state st: a field already at the field
\* size limit makes the reader fail
add_char(p, c, st) ==
  IF Len(p.field) >= FIELD_SIZE_LIMIT THEN [p EXCEPT !.state = "ERROR"]
  ELSE [p EXCEPT !.field = Append(p.field, c), !.state = st]

IsNL(c) == c = "\n" \/ c = "\r"

AfterNL(c) == IF c = EOL THEN "START_RECORD" ELSE "EAT_CRNL"

\* parse_process_char of the excel dialect (delimiter ",", quotechar "\"",
\* doublequote, no escapechar, not strict)
process_char(p, c) ==
  CASE p.state = "START_RECORD" /\ c = EOL -> p
    [] p.state = "START_RECORD" /\ IsNL(c) -> [p EXCEPT !.state = "EAT_CRNL"]
    [] p.state \in {"START_RECORD", "START_FIELD"} /\ c # EOL /\ ~IsNL(c) ->
         IF c = "\"" THEN [p EXCEPT !.state = "IN_QUOTED_FIELD"]
         ELSE IF c = "," THEN [save_field(p) EXCEPT !.state = "START_FIELD"]
         ELSE add_char(p, c, "IN_FIELD")
    [] p.state = "START_FIELD" /\ (c = EOL \/ IsNL(c)) ->
         [save_field(p) EXCEPT !.state = AfterNL(c)]
    [] p.state = "IN_FIELD" ->
         IF c = EOL \/ IsNL(c) THEN [save_field(p) EXCEPT !.state = AfterNL(c)]
         ELSE IF c = "," THEN [save_field(p) EXCEPT !.state = "START_FIELD"]
         ELSE add_char(p, c, "IN_FIELD")
    [] p.state = "IN_QUOTED_FIELD" ->
         IF c = EOL THEN p
         ELSE IF c = "\"" THEN [p EXCEPT !.state = "QUOTE_IN_QUOTED_FIELD"]
         ELSE add_char(p, c, "IN_QUOTED_FIELD")
    [] p.state = "QUOTE_IN_QUOTED_FIELD" ->
         IF c = "\"" THEN add_char(p, c, "IN_QUOTED_FIELD")
         ELSE IF c = "," THEN [save_field(p) EXCEPT !.state = "START_FIELD"]
         ELSE IF c = EOL \/ IsNL(c)
              THEN [save_field(p) EXCEPT !.state = AfterNL(c)]
         ELSE add_char(p, c, "IN_FIELD")
    [] p.state = "EAT_CRNL" ->
         IF c = EOL THEN [p EXCEPT !.state = "START_RECORD"]
         ELSE IF IsNL(c) THEN p
         ELSE [p EXCEPT !.state = "ERROR"]

\* the characters text[i..j] fed to the parser in order, up to the first one
\* it refuses (the range is halved only to keep the evaluation shallow)
RECURSIVE process_chars(_, _, _, _)
process_chars(p, text, i, j) ==
  IF p.state = "ERROR" \/ i > j THEN p
  ELSE IF i = j THEN process_char(p, text[i])
  ELSE LET m == (i + j) \div 2
       IN process_chars(process_chars(p, text, i, m), text, m + 1, j)

\* the characters of one line, then EOL
process_line(p, text, i, j) ==
  LET q == process_chars(p, text, i, j)
  IN IF q.state = "ERROR" THEN q ELSE process_char(q, EOL)

\* Reader_iternext: lines are taken from the input until the parser is back
\* in START_RECORD; at the end of the input a field still open inside quotes
\* is saved and the record returned (at_end), otherwise the iteration stops.
\* A character the parser refuses raises csv.Error.
RECURSIVE iternext(_, _, _, _)
iternext(text, pos, line_num, p) ==
  IF pos > Len(text)
  THEN IF p.field # <<>> \/ p.state = "IN_QUOTED_FIELD"
       THEN [stop |-> FALSE, error |-> FALSE, row |-> save_field(p).fields,
             pos |-> pos, line_num |-> line_num, at_end |-> TRUE]
       ELSE [stop |-> TRUE, error |-> FALSE, row |-> <<>>,
             pos |-> pos, line_num |-> line_num, at_end |-> TRUE]
  ELSE LET e == LineEnd(text, pos)
           q == process_line(p, text, pos, e)
       IN IF q.state = "ERROR"
          THEN [stop |-> FALSE, error |-> TRUE, row |-> <<>>,
                pos |-> e + 1, line_num |-> line_num + 1, at_end |-> FALSE]
          ELSE IF q.state = "START_RECORD"
          THEN [stop |-> FALSE, error |-> FALSE, row |-> q.fields,
                pos |-> e + 1, line_num |-> line_num + 1, at_end |-> FALSE]
          ELSE iternext(text, e + 1, line_num + 1, q)

\* next(reader): parse_reset, then Reader_iternext
reader_next(text, r) ==
  iternext(text, r.pos, r.line_num,
           [state |-> "START_RECORD", fields |-> <<>>, field |-> <<>>])

\* csv_reader_from_text
csv_reader_from_text(csv_text) == [pos |-> 1, line_num |-> 0]

\* ---------------------------------------------------------------------
\* parse_dt_str
\* ---------------------------------------------------------------------
\* DATE_TIME_RE: ^\d{4}/\d{2}/\d{2} \d{2}:\d{2}:\d{2}$
DATE_TIME_RE_match(t) ==
  /\ Len(t) = 19
  /\ \A i \in {1, 2, 3, 4, 6, 7, 9, 10, 12, 13, 15, 16, 18, 19} : t[i] \in Digits
  /\ t[5] = "/" /\ t[8] = "/" /\ t[11] = " " /\ t[14] = ":" /\ t[17] = ":"

IsLeap(y) == (y % 4 = 0 /\ y % 100 # 0) \/ y % 400 = 0

DaysInMonth(y, m) ==
  IF m = 2 THEN (IF IsLeap(y) THEN 29 ELSE 28)
  ELSE IF m \in {4, 6, 9, 11} THEN 30 ELSE 31

\* the pattern _strptime compiles for "%Y/%m/%d %H:%M:%S", on a string that
\* DATE_TIME_RE matched: %Y is \d\d\d\d, but the other directives spell their
\* ranges with ASCII classes,
\*   %m 1[0-2]|0[1-9]|[1-9]       %d 3[0-1]|[1-2]\d|0[1-9]|[1-9]| [1-9]
\*   %H 2[0-3]|[0-1]\d|\d         %M [0-5]\d|\d      %S 6[0-1]|[0-5]\d|\d
\* and a one-character alternative cannot match where two digits stand.
strptime_format_match(t) ==
  /\ \/ t[6] = "1" /\ t[7] \in {"0", "1", "2"}
     \/ t[6] = "0" /\ t[7] \in AsciiDigits \ {"0"}
  /\ \/ t[9] = "3" /\ t[10] \in {"0", "1"}
     \/ t[9] \in {"1", "2"}
     \/ t[9] = "0" /\ t[10] \in AsciiDigits \ {"0"}
  /\ \/ t[12] = "2" /\ t[13] \in {"0", "1", "2", "3"}
     \/ t[12] \in {"0", "1"}
  /\ t[15] \in {"0", "1", "2", "3", "4", "5"}
  /\ \/ t[18] = "6" /\ t[19] \in {"0", "1"}
     \/ t[18] \in {"0", "1", "2", "3", "4", "5"}

\* datetime.strptime(t, "%Y/%m/%d %H:%M:%S") on a string that DATE_TIME_RE
\* matched: the datetime, or None where strptime raises ValueError (the
\* pattern does not match, or datetime() refuses the year 0, a day the month
\* does not have, or the second 60 or 61).
strptime(t) ==
  LET y == Int4(t, 1)  mo == Int2(t, 6)   d == Int2(t, 9)
      h == Int2(t, 12) mi == Int2(t, 15)  s == Int2(t, 18)
  IN IF /\ strptime_format_match(t)
        /\ y >= 1
        /\ d <= DaysInMonth(y, mo)
        /\ s <= 59
     THEN [year |-> y, month |-> mo, day |-> d,
           hour |-> h, minute |-> mi, second |-> s]
     ELSE None

parse_dt_str(s) ==
  LET t == strip(s)
  IN IF ~DATE_TIME_RE_match(t) THEN None ELSE strptime(t)

DigitChar(n) ==
  CASE n = 0 -> "0" [] n = 1 -> "1" [] n = 2 -> "2" [] n = 3 -> "3"
    [] n = 4 -> "4" [] n = 5 -> "5" [] n = 6 -> "6" [] n = 7 -> "7"
    [] n = 8 -> "8" [] n = 9 -> "9"

RECURSIVE Decimal(_)
Decimal(n) ==
  IF n < 10 THEN <<DigitChar(n)>>
  ELSE Append(Decimal(n \div 10), DigitChar(n % 10))

TwoDigits(n) == <<DigitChar(n \div 10), DigitChar(n % 10)>>

\* dt.strftime("%Y/%m/%d"): the year is not zero padded, month and day are
strftime_ymd(dt) ==
  Decimal(dt.year) \o <<"/">> \o TwoDigits(dt.month) \o <<"/">> \o TwoDigits(dt.day)

\* ---------------------------------------------------------------------
\* check_and_analyze
\* ---------------------------------------------------------------------
\* row[i].strip() if len(row) > i else ""  (i is a 0-based Python index)
cell(row, i) == IF Len(row) > i THEN strip(row[i + 1]) ELSE <<>>

\* financial_check with "len(row) > TARGET_COL_38 + 1" for its width test
financial_check_NeedsWiderRow(row, start_physical_line) ==
  IF Len(row) > TARGET_COL_38 + 1
  THEN LET col_25 == strip(row[TARGET_COL_25 + 1])
           col_38 == strip(row[TARGET_COL_38 + 1])
       IN IF col_25 = <<"Z", "0", "0", "0", "1", "4">>
             /\ col_38 \notin {<<"3", "0", "0", "0">>, <<"5", "0", "0", "0">>}
          THEN << [row |-> start_physical_line, store_name |-> cell(row, STORE_COL),
                   slip_number |-> cell(row, SLIP_COL), col_38 |-> col_38] >>
          ELSE <<>>
  ELSE <<>>

\* the NG check of columns 25 / 38: the ErrorDetails to append for one row
financial_check(row, start_physical_line) ==
  IF Len(row) >= TARGET_COL_38 + 1
  THEN LET col_3 == cell(row, STORE_COL)
           col_11 == cell(row, SLIP_COL)
           col_25 == strip(row[TARGET_COL_25 + 1])
           col_38 == strip(row[TARGET_COL_38 + 1])
       IN IF col_25 = <<"Z", "0", "0", "0", "1", "4">>
             /\ col_38 \notin {<<"3", "0", "0", "0">>, <<"5", "0", "0", "0">>}
          THEN << [row |-> start_physical_line, store_name |-> col_3,
                   slip_number |-> col_11, col_38 |-> col_38] >>
          ELSE <<>>
  ELSE <<>>

DateIssue(record_no, start_physical_line, severity, issue_type, col9, col17, note) ==
  [record_no |-> record_no, start_physical_line |-> start_physical_line,
   severity |-> severity, issue_type |-> issue_type,
   col9 |-> col9, col17 |-> col17, note |-> note]

\* the check of column 9 (mandatory): counters and issues after it
col9_check(f, data_record_no, start_physical_line, col9, col17) ==
  IF parse_dt_str(col9) = None
  THEN [f EXCEPT !.count_error = @ + 1,
                 !.issues = Append(@, DateIssue(data_record_no, start_physical_line,
                                     "ERROR", "COL9_MISSING_OR_INVALID",
                                     col9, col17, <<"col9 required">>))]
  ELSE [f EXCEPT !.count_col9_ok = @ + 1, !.total_checked_cells = @ + 1]

\* col17_check with the "count_warn += 1" of the DATE_MISMATCH branch left out
col17_check_MismatchNotCounted(f, data_record_no, start_physical_line, col9, col17) ==
  LET dt9 == parse_dt_str(col9)
      dt17 == parse_dt_str(col17)
  IN IF strip(col17) = <<>>
     THEN [f EXCEPT !.count_warn = @ + 1,
                    !.issues = Append(@, DateIssue(data_record_no, start_physical_line,
                                        "WARN", "COL17_EMPTY",
                                        col9, col17, <<"col17 empty">>))]
     ELSE IF dt17 = None
     THEN [f EXCEPT !.count_warn = @ + 1,
                    !.issues = Append(@, DateIssue(data_record_no, start_physical_line,
                                        "WARN", "COL17_INVALID",
                                        col9, col17, <<"col17 not a date">>))]
     ELSE LET g == [f EXCEPT !.count_col17_ok = @ + 1, !.total_checked_cells = @ + 1]
          IN IF dt9 # None /\ strftime_ymd(dt9) # strftime_ymd(dt17)
             THEN [g EXCEPT !.issues = Append(@, DateIssue(data_record_no,
                                                start_physical_line,
                                                "WARN", "DATE_MISMATCH", col9, col17,
                                                <<"col9 and col17 differ">>))]
             ELSE g

\* the check of column 17 (advisory) and the comparison with column 9
col17_check(f, data_record_no, start_physical_line, col9, col17) ==
  LET dt9 == parse_dt_str(col9)
      dt17 == parse_dt_str(col17)
  IN IF strip(col17) = <<>>
     THEN [f EXCEPT !.count_warn = @ + 1,
                    !.issues = Append(@, DateIssue(data_record_no, start_physical_line,
                                        "WARN", "COL17_EMPTY",
                                        col9, col17, <<"col17 empty">>))]
     ELSE IF dt17 = None
     THEN [f EXCEPT !.count_warn = @ + 1,
                    !.issues = Append(@, DateIssue(data_record_no, start_physical_line,
                                        "WARN", "COL17_INVALID",
                                        col9, col17, <<"col17 not a date">>))]
     ELSE LET g == [f EXCEPT !.count_col17_ok = @ + 1, !.total_checked_cells = @ + 1]
          IN IF dt9 # None /\ strftime_ymd(dt9) # strftime_ymd(dt17)
             THEN [g EXCEPT !.count_warn = @ + 1,
                            !.issues = Append(@, DateIssue(data_record_no,
                                                start_physical_line,
                                                "WARN", "DATE_MISMATCH", col9, col17,
                                                <<"col9 (">> \o strftime_ymd(dt9)
                                                  \o <<") col17 (">> \o strftime_ymd(dt17)
                                                  \o <<") differ">>))]
             ELSE g

\* the locals of check_and_analyze before the loop
InitFrame(csv_text) ==
  [pc |-> "loop",
   exc |-> "",
   csv_text |-> csv_text,
   reader |-> csv_reader_from_text(csv_text),
   record_no |-> 0,
   prev_end_line |-> 0,
   start_physical_line |-> 0,
   error_details |-> <<>>,
   total_data_records |-> 0,
   total_physical_lines |-> 0,
   total_checked_cells |-> 0,
   count_col9_ok |-> 0,
   count_col17_ok |-> 0,
   count_warn |-> 0,
   count_error |-> 0,
   issues |-> <<>>]

\* line_accounting with the record number taken for the start line
line_accounting_StartIsRecordNo(f, n) ==
  [f EXCEPT !.reader = [pos |-> n.pos, line_num |-> n.line_num],
            !.record_no = @ + 1,
            !.start_physical_line = f.record_no + 1,
            !.prev_end_line = n.line_num,
            !.total_physical_lines = n.line_num]

\* the line accounting at the top of the loop body
line_accounting(f, n) ==
  [f EXCEPT !.reader = [pos |-> n.pos, line_num |-> n.line_num],
            !.record_no = @ + 1,
            !.start_physical_line = f.prev_end_line + 1,
            !.prev_end_line = n.line_num,
            !.total_physical_lines = n.line_num]

\* data_row that checks nothing more once a financial issue has been found
data_row_StopsAfterFirstIssue(f, row) ==
  IF f.error_details # <<>> THEN f
  ELSE LET g == [f EXCEPT !.total_data_records = @ + 1]
           h == [g EXCEPT !.error_details =
                            @ \o financial_check(row, g.start_physical_line)]
           col9 == cell(row, DATE_COL_9)
           col17 == cell(row, DATE_COL_17)
       IN col17_check(col9_check(h, g.total_data_records, h.start_physical_line,
                                 col9, col17),
                      g.total_data_records, h.start_physical_line, col9, col17)

\* the part of the loop body that only data rows reach
data_row(f, row) ==
  LET g == [f EXCEPT !.total_data_records = @ + 1]
      data_record_no == g.total_data_records
      h == [g EXCEPT !.error_details =
                       @ \o financial_check(row, g.start_physical_line)]
      col9 == cell(row, DATE_COL_9)
      col17 == cell(row, DATE_COL_17)
  IN col17_check(col9_check(h, data_record_no, h.start_physical_line, col9, col17),
                 data_record_no, h.start_physical_line, col9, col17)

\* loop_body without "if record_no == 1: continue"
loop_body_HeaderChecked(f, n) ==
  LET g == line_accounting(f, n)
  IN IF n.error THEN [f EXCEPT !.pc = "raised", !.exc = "csv.Error"]
     ELSE IF g.total_physical_lines > MAX_PHYSICAL_LINES
     THEN [g EXCEPT !.pc = "raised", !.exc = "ValueError"]
     ELSE data_row(g, n.row)

\* loop_body with ">=" for the ">" of the ceiling test
loop_body_CeilingInclusive(f, n) ==
  LET g == line_accounting(f, n)
  IN IF n.error THEN [f EXCEPT !.pc = "raised", !.exc = "csv.Error"]
     ELSE IF g.total_physical_lines >= MAX_PHYSICAL_LINES
     THEN [g EXCEPT !.pc = "raised", !.exc = "ValueError"]
     ELSE IF g.record_no = 1 THEN g
     ELSE data_row(g, n.row)

\* the loop body for the record n that next(reader) yielded
loop_body(f, n) ==
  LET g == line_accounting(f, n)
  IN IF n.error THEN [f EXCEPT !.pc = "raised", !.exc = "csv.Error"]
     ELSE IF g.total_physical_lines > MAX_PHYSICAL_LINES
     THEN [g EXCEPT !.pc = "raised", !.exc = "ValueError"]
     ELSE IF g.record_no = 1 THEN g
     ELSE data_row(g, n.row)

\* one turn of "for record_no, row in enumerate(reader, start=1)": the frame
\* after the body ran for the next record, after the raise, or after the loop
\* ended
loop_step(f) ==
  LET n == reader_next(f.csv_text, f.reader)
  IN IF n.stop THEN [f EXCEPT !.pc = "returned"] ELSE loop_body(f, n)

DateSummary(f) ==
  [total_checked_cells |-> f.total_checked_cells,
   count_col9_ok |-> f.count_col9_ok,
   count_col17_ok |-> f.count_col17_ok,
   count_warn |-> f.count_warn,
   count_error |-> f.count_error,
   issues |-> f.issues]

\* the tuple check_and_analyze returns
return_value(f) ==
  [error_found |-> Len(f.error_details) > 0,
   error_details |-> f.error_details,
   total_records |-> f.total_data_records,
   total_physical_lines |-> f.total_physical_lines,
   date_summary |-> DateSummary(f)]

\* check_and_analyze run to its end: the frame at the return or the raise
RECURSIVE run_loop(_)
run_loop(f) == IF f.pc # "loop" THEN f ELSE run_loop(loop_step(f))

\* ---------------------------------------------------------------------
\* main: bytes, file signature, session state
\* ---------------------------------------------------------------------
\* bytes.decode("cp932") over the bytes the model uses: an ASCII byte is its
\* character; the lead byte x81 needs a trail byte, and 81 40 is U+3000
RECURSIVE cp932_decode(_)
cp932_decode(raw) ==
  IF raw = <<>> THEN [ok |-> TRUE, text |-> <<>>]
  ELSE IF Head(raw) = "x81"
       THEN IF Len(raw) >= 2 /\ raw[2] = "@"
            THEN LET r == cp932_decode(SubSeq(raw, 3, Len(raw)))
                 IN IF r.ok THEN [ok |-> TRUE, text |-> <<"U+3000">> \o r.text] ELSE r
            ELSE [ok |-> FALSE, text |-> <<>>]
       ELSE LET r == cp932_decode(Tail(raw))
            IN IF r.ok THEN [ok |-> TRUE, text |-> <<Head(raw)>> \o r.text] ELSE r

\* (uploaded.name, len(raw), sha256(raw).hexdigest()); the digest is taken to
\* be free of collisions and stands as the bytes themselves
file_sig(u) == [name |-> u.name, len |-> Len(u.raw), sha256 |-> u.raw]

\* the dict main stores as st.session_state["last_result"]
result_dict(r, uploaded_name) ==
  [error_found |-> r.error_found,
   error_details |-> r.error_details,
   total_records |-> r.total_records,
   total_physical_lines |-> r.total_physical_lines,
   date_summary |-> r.date_summary,
   uploaded_name |-> uploaded_name]

\* ---------------------------------------------------------------------
\* State
\* ---------------------------------------------------------------------
VARIABLES
  frame,          \* the locals of check_and_analyze, and where the call is
  result,         \* what the call handed to its caller: None, the tuple, or the error
  log,            \* history: the records the reader has yielded, each with
                  \* its row and the first and last line the loop gave it
  uploaded,       \* the file in the uploader at the current run of main, or None
  session_state,  \* st.session_state: last_file_sig and last_result
  screen,         \* what the current run of main has put on the page
  mpc             \* where main is: "idle" between runs, "analyzing" inside the try

vars == <<frame, result, log, uploaded, session_state, screen, mpc>>
main_vars == <<uploaded, session_state, screen, mpc>>

TextAlphabet == {"a", ",", "\"", "\n", "\r"}

RECURSIVE SeqsUpTo(_, _)
SeqsUpTo(S, n) ==
  IF n = 0 THEN {<<>>}
  ELSE LET T == SeqsUpTo(S, n - 1)
       IN T \cup {Append(t, c) : t \in {u \in T : Len(u) = n - 1}, c \in S}

\* every text of at most MaxTextLen characters
SmallTexts == SeqsUpTo(TextAlphabet, MaxTextLen)

\* a cell of n characters
LongCell(n) == [i \in 1..n |-> "a"]

\* texts with a cell at, and one past, the field size limit
LongFieldTexts ==
  { pre \o q \o LongCell(n) \o q \o post :
      pre \in {<<>>, <<"h", "\n">>, <<"h", "\n", "x", "\n">>},
      q \in {<<>>, <<"\"">>},
      n \in {FIELD_SIZE_LIMIT, FIELD_SIZE_LIMIT + 1},
      post \in {<<>>, <<"\n">>, <<",", "b", "\n">>} }

MainIdle ==
  /\ uploaded = None
  /\ session_state = [last_file_sig |-> None, last_result |-> None]
  /\ screen = [kind |-> "blank"]
  /\ mpc = "idle"

\* check_and_analyze is called on one of the texts
InitWith(texts) ==
  /\ \E t \in texts : frame = InitFrame(t)
  /\ result = None
  /\ log = <<>>
  /\ MainIdle

\* open_at_end: the record was cut off by the end of the text inside quotes
Logged(g, n) ==
  Append(log, [row |-> n.row, start |-> g.start_physical_line,
               end |-> g.prev_end_line, open_at_end |-> n.at_end])

\* the loop body runs for the header record
Header ==
  /\ frame.pc = "loop"
  /\ LET n == reader_next(frame.csv_text, frame.reader)
         g == loop_body(frame, n)
     IN /\ ~n.stop /\ g.pc = "loop" /\ g.record_no = 1
        /\ frame' = g
        /\ log' = Logged(g, n)
  /\ UNCHANGED <<result, main_vars>>

\* the loop body runs for a data record
DataRecord ==
  /\ frame.pc = "loop"
  /\ LET n == reader_next(frame.csv_text, frame.reader)
         g == loop_body(frame, n)
     IN /\ ~n.stop /\ g.pc = "loop" /\ g.record_no > 1
        /\ frame' = g
        /\ log' = Logged(g, n)
  /\ UNCHANGED <<result, main_vars>>

\* the record just read ends past the ceiling: ValueError
LimitExceeded ==
  /\ frame.pc = "loop"
  /\ LET n == reader_next(frame.csv_text, frame.reader)
         g == loop_body(frame, n)
     IN /\ ~n.stop /\ g.pc = "raised" /\ g.exc = "ValueError"
        /\ frame' = g
        /\ log' = Logged(g, n)
        /\ result' = [exception |-> g.exc]
  /\ UNCHANGED main_vars

\* the reader fails inside next(reader): csv.Error leaves the loop
CsvError ==
  /\ frame.pc = "loop"
  /\ LET n == reader_next(frame.csv_text, frame.reader)
         g == loop_body(frame, n)
     IN /\ ~n.stop /\ g.pc = "raised" /\ g.exc = "csv.Error"
        /\ frame' = g
        /\ result' = [exception |-> g.exc]
  /\ UNCHANGED <<log, main_vars>>

\* the reader is exhausted: the summary is built and returned
Return ==
  /\ frame.pc = "loop"
  /\ LET n == reader_next(frame.csv_text, frame.reader)
         g == [frame EXCEPT !.pc = "returned"]
     IN /\ n.stop
        /\ frame' = g
        /\ result' = return_value(g)
  /\ UNCHANGED <<log, main_vars>>

Next == Header \/ DataRecord \/ LimitExceeded \/ CsvError \/ Return

\* check_and_analyze on every short text over the csv alphabet, and on texts
\* with a long cell
InitReader == InitWith(SmallTexts \cup LongFieldTexts)
SpecReader == InitReader /\ [][Next]_vars

\* ---------------------------------------------------------------------
\* Inputs with rows wide enough for both rules
\* ---------------------------------------------------------------------
FourDigits(n) == TwoDigits(n \div 100) \o TwoDigits(n % 100)

\* the text YYYY/MM/DD HH:MM:SS of six numbers, real date or not
DateText(y, mo, d, h, mi, sec) ==
  FourDigits(y) \o <<"/">> \o TwoDigits(mo) \o <<"/">> \o TwoDigits(d) \o <<" ">>
    \o TwoDigits(h) \o <<":">> \o TwoDigits(mi) \o <<":">> \o TwoDigits(sec)

GoodDate == DateText(2024, 5, 1, 9, 0, 0)

\* t with the full-width digit two as its i-th character
FullWidthAt(t, i) == [t EXCEPT ![i] = "U+FF12"]

Col9Values ==
  { GoodDate,
    FullWidthAt(GoodDate, 1),
    FullWidthAt(DateText(2024, 12, 1, 9, 0, 0), 7),
    <<" ">> \o GoodDate \o <<" ">>,
    DateText(2024, 2, 29, 0, 0, 0),
    DateText(2024, 2, 30, 10, 0, 0),
    DateText(2023, 2, 29, 0, 0, 0),
    DateText(2024, 5, 1, 24, 0, 0),
    <<"2", "0", "2", "4", "/", "5", "/", "1">>,
    <<>> }

Col17Values ==
  { <<>>,
    <<" ">>,
    FullWidthAt(DateText(2024, 5, 2, 0, 0, 1), 1),
    FullWidthAt(DateText(2024, 5, 1, 22, 0, 0), 13),
    DateText(2024, 5, 1, 23, 59, 59),
    DateText(2024, 5, 2, 0, 0, 1),
    DateText(2024, 2, 29, 9, 0, 0),
    DateText(2024, 13, 1, 0, 0, 0),
    DateText(2024, 5, 1, 23, 59, 60),
    <<"x">> }

Col25Values ==
  { <<"Z", "0", "0", "0", "1", "4">>,
    <<" ", "Z", "0", "0", "0", "1", "4", " ">>,
    <<"Z", "0", "0", "0", "1", "5">>,
    <<>> }

Col38Values ==
  { <<"3", "0", "0", "0">>, <<"5", "0", "0", "0">>, <<"4", "0", "0", "0">>,
    <<" ", "3", "0", "0", "0">>, <<"3", "0", "0", "0", "0">>, <<>> }

\* a row of len cells: the named cells where the row is wide enough, with
\* brk line breaks quoted into its first cell, every other cell empty
RowCells(len, brk, c9, c17, c25, c38) ==
  [i \in 1..len |->
     CASE i = 1 -> IF brk = 0 THEN <<"r">>
                   ELSE <<"\"", "r">> \o [k \in 1..brk |-> "\n"] \o <<"\"">>
       [] i = STORE_COL + 1 -> <<" ", "S", "t">>
       [] i = SLIP_COL + 1 -> <<"N", "o", " ">>
       [] i = DATE_COL_9 + 1 -> c9
       [] i = DATE_COL_17 + 1 -> c17
       [] i = TARGET_COL_25 + 1 -> c25
       [] i = TARGET_COL_38 + 1 -> c38
       [] OTHER -> <<>>]

RECURSIVE JoinCells(_)
JoinCells(cells) ==
  IF Len(cells) = 0 THEN <<>>
  ELSE IF Len(cells) = 1 THEN cells[1]
  ELSE cells[1] \o <<",">> \o JoinCells(Tail(cells))

\* one line of csv text
RowText(len, brk, c9, c17, c25, c38) ==
  JoinCells(RowCells(len, brk, c9, c17, c25, c38)) \o <<"\n">>

FullLen == TARGET_COL_38 + 1

\* rows that vary the date cells, the financial cells, and the width
DateRows ==
  { RowText(FullLen, 0, c9, c17, c25, <<"4", "0", "0", "0">>) :
      c9 \in Col9Values, c17 \in Col17Values,
      c25 \in {<<"Z", "0", "0", "0", "1", "4">>, <<"Z", "0", "0", "0", "1", "5">>} }

FinancialRows ==
  { RowText(len, 0, c9, <<>>, c25, c38) :
      len \in {FullLen - 1, FullLen, FullLen + 1},
      c9 \in {GoodDate, <<>>}, c25 \in Col25Values, c38 \in Col38Values }

NarrowRows ==
  { RowText(len, 0, c9, c17, <<>>, <<>>) :
      len \in {1, STORE_COL + 1, DATE_COL_9, DATE_COL_9 + 1, DATE_COL_17, DATE_COL_17 + 1},
      c9 \in {GoodDate, <<>>},
      c17 \in {DateText(2024, 5, 2, 0, 0, 1), <<>>} }

DataRows == DateRows \cup FinancialRows \cup NarrowRows

\* rows of a longer file: a clean one that spans two lines, one that breaks
\* both rules, one whose dates fall on different days, and an empty line
FillerRows ==
  { RowText(FullLen, 1, GoodDate, GoodDate,
            <<"Z", "0", "0", "0", "1", "4">>, <<"3", "0", "0", "0">>),
    RowText(FullLen, 0, <<>>, <<"x">>,
            <<"Z", "0", "0", "0", "1", "4">>, <<"4", "0", "0", "0">>),
    RowText(DATE_COL_17 + 1, 0, GoodDate, DateText(2024, 5, 2, 0, 0, 1), <<>>, <<>>),
    <<"\n">> }

\* headers: a plain one, and one whose cells would break both rules and
\* whose first cell spans two lines
HeaderRows ==
  { RowText(FullLen, 0, <<"d", "9">>, <<"d", "1", "7">>, <<"c">>, <<"a">>),
    RowText(FullLen, 1, DateText(2024, 2, 30, 10, 0, 0), <<>>,
            <<"Z", "0", "0", "0", "1", "4">>, <<"4", "0", "0", "0">>) }

\* every sequence of at most n filler rows, as text
RECURSIVE Fillers(_)
Fillers(n) ==
  IF n = 0 THEN {<<>>}
  ELSE LET T == Fillers(n - 1)
       IN T \cup {t \o r : t \in T, r \in FillerRows}

\* no text at all; a header and an oversized cell; a header and one row of
\* DataRows; a header and up to MaxDataRecords filler rows
WideTexts ==
  {<<>>}
    \cup { h \o LongCell(FIELD_SIZE_LIMIT + 1) : h \in HeaderRows }
    \cup { h \o r : h \in HeaderRows, r \in DataRows }
    \cup { h \o t : h \in HeaderRows, t \in Fillers(MaxDataRecords) }

Init == InitWith(WideTexts)
Spec == Init /\ [][Next]_vars

\* ---------------------------------------------------------------------
\* main, rerun by Streamlit with whatever file is in the uploader
\* ---------------------------------------------------------------------
\* the files a user may put into the uploader
Files ==
  { [name |-> "a.csv", raw |-> <<"h", "\n", "x", "\n">>],
    [name |-> "a.csv", raw |-> <<"h", "\n">>],
    [name |-> "f.csv", raw |-> <<"h", "\n", "x", "\n">>],
    [name |-> "w.csv", raw |-> <<"h", "\n", "x81", "@", ",", "\"", "\n", "\"", "\n">>],
    [name |-> "b.csv", raw |-> <<"h", "\n", "x", "\n", "x81">>],
    [name |-> "c.csv", raw |-> <<"h", "\n", "x", "\n", "\n", "\n">>],
    [name |-> "l.csv", raw |-> <<"h", "\n">> \o LongCell(FIELD_SIZE_LIMIT + 1)],
    [name |-> "e.csv", raw |-> <<>>] }

IdleFrame == [InitFrame(<<>>) EXCEPT !.pc = "idle"]

InitMain ==
  /\ frame = IdleFrame
  /\ result = None
  /\ log = <<>>
  /\ MainIdle

\* uploaded is None: the hint is shown and main returns
MainNoFile ==
  /\ mpc = "idle"
  /\ uploaded' = None
  /\ screen' = [kind |-> "info_no_file"]
  /\ UNCHANGED <<frame, result, log, session_state, mpc>>

\* the uploader holds a file without bytes yet: main returns
MainUploading ==
  /\ mpc = "idle"
  /\ \E u \in Files :
       /\ u.raw = <<>>
       /\ uploaded' = u
  /\ screen' = [kind |-> "info_uploading"]
  /\ UNCHANGED <<frame, result, log, session_state, mpc>>

\* the signature is the stored one and a result is stored: it is rendered
MainCached ==
  /\ mpc = "idle"
  /\ \E u \in Files :
       /\ u.raw # <<>>
       /\ session_state.last_file_sig = file_sig(u)
       /\ session_state.last_result # None
       /\ uploaded' = u
       /\ screen' = [kind |-> "result", shown |-> session_state.last_result]
  /\ UNCHANGED <<frame, result, log, session_state, mpc>>

\* main goes past the cache test
NotCached(u) ==
  /\ u.raw # <<>>
  /\ ~(session_state.last_file_sig = file_sig(u) /\ session_state.last_result # None)

\* the signature is stored, the bytes do not decode: the except branch
MainDecodeError ==
  /\ mpc = "idle"
  /\ \E u \in Files :
       /\ NotCached(u)
       /\ ~cp932_decode(u.raw).ok
       /\ uploaded' = u
       /\ session_state' = [session_state EXCEPT !.last_file_sig = file_sig(u)]
  /\ screen' = [kind |-> "error", exc |-> "ValueError"]
  /\ UNCHANGED <<frame, result, log, mpc>>

\* the signature is stored, the bytes decode: check_and_analyze is called
MainAnalyze ==
  /\ mpc = "idle"
  /\ \E u \in Files :
       /\ NotCached(u)
       /\ cp932_decode(u.raw).ok
       /\ uploaded' = u
       /\ session_state' = [session_state EXCEPT !.last_file_sig = file_sig(u)]
       /\ frame' = InitFrame(cp932_decode(u.raw).text)
  /\ result' = None
  /\ log' = <<>>
  /\ screen' = [kind |-> "overlay"]
  /\ mpc' = "analyzing"

\* check_and_analyze returned: the result is stored and rendered
MainStore ==
  /\ mpc = "analyzing"
  /\ frame.pc = "returned"
  /\ session_state' = [session_state EXCEPT
                         !.last_result = result_dict(result, uploaded.name)]
  /\ screen' = [kind |-> "result", shown |-> session_state'.last_result]
  /\ mpc' = "idle"
  /\ frame' = IdleFrame /\ result' = None /\ log' = <<>>
  /\ UNCHANGED uploaded

\* MainExcept that stores what had been counted before the raise
MainExcept_KeepsPartial ==
  /\ mpc = "analyzing"
  /\ frame.pc = "raised"
  /\ session_state' = [session_state EXCEPT
                         !.last_result = result_dict(return_value(frame), uploaded.name)]
  /\ screen' = [kind |-> "error", exc |-> result.exception]
  /\ mpc' = "idle"
  /\ frame' = IdleFrame /\ result' = None /\ log' = <<>>
  /\ UNCHANGED uploaded

\* check_and_analyze raised: the except branch shows the error and returns
MainExcept ==
  /\ mpc = "analyzing"
  /\ frame.pc = "raised"
  /\ screen' = [kind |-> "error", exc |-> result.exception]
  /\ mpc' = "idle"
  /\ frame' = IdleFrame /\ result' = None /\ log' = <<>>
  /\ UNCHANGED <<uploaded, session_state>>

NextMain ==
  \/ MainNoFile \/ MainUploading \/ MainCached \/ MainDecodeError \/ MainAnalyze
  \/ Header \/ DataRecord \/ LimitExceeded \/ CsvError \/ Return
  \/ MainStore \/ MainExcept

SpecMain == InitMain /\ [][NextMain]_vars

\* ---------------------------------------------------------------------
\* Vocabulary of the properties
\* ---------------------------------------------------------------------
\* log[i] went through the loop body (the record that crossed the ceiling
\* was read but not processed)
Processed(i) == ~(i = Len(log) /\ frame.pc = "raised" /\ frame.exc = "ValueError")

\* the data records processed so far, as indices of log
DataIndices == {i \in 2..Len(log) : Processed(i)}

\* the trimmed cell in column k (counted from 1) of a row, empty if absent
Column(row, k) == IF k <= Len(row) THEN strip(row[k]) ELSE <<>>

Z00014 == <<"Z", "0", "0", "0", "1", "4">>

DecimalDigits == <<"0", "1", "2", "3", "4", "5", "6", "7", "8", "9">>

IsDigit(c) == \E d \in 1..10 : DecimalDigits[d] = c

\* the number written by the digits t[i..j]
RECURSIVE Number(_, _, _)
Number(t, i, j) ==
  IF j < i THEN 0
  ELSE 10 * Number(t, i, j - 1) + ((CHOOSE d \in 1..10 : DecimalDigits[d] = t[j]) - 1)

MonthLengths == <<31, 28, 31, 30, 31, 30, 31, 31, 30, 31, 30, 31>>

\* t is YYYY/MM/DD HH:MM:SS and names a moment of the calendar
RealDateTime(t) ==
  /\ Len(t) = 19
  /\ <<t[5], t[8], t[11], t[14], t[17]>> = <<"/", "/", " ", ":", ":">>
  /\ \A i \in (1..19) \ {5, 8, 11, 14, 17} : IsDigit(t[i])
  /\ LET y == Number(t, 1, 4)
         m == Number(t, 6, 7)
         d == Number(t, 9, 10)
         leap == y % 400 = 0 \/ (y % 4 = 0 /\ y % 100 # 0)
     IN /\ y \in 1..9999
        /\ m \in 1..12
        /\ d >= 1
        /\ d <= (IF m = 2 /\ leap THEN 29 ELSE MonthLengths[m])
        /\ Number(t, 12, 13) \in 0..23
        /\ Number(t, 15, 16) \in 0..59
        /\ Number(t, 18, 19) \in 0..59

\* the financial issue the rule asks of log[i], if any
WantedFinancial(i) ==
  LET row == log[i].row
  IN IF /\ Len(row) >= 38
        /\ Column(row, 25) = Z00014
        /\ Column(row, 38) \notin {<<"3", "0", "0", "0">>, <<"5", "0", "0", "0">>}
     THEN << [row |-> log[i].start, store_name |-> Column(row, 3),
              slip_number |-> Column(row, 11), col_38 |-> Column(row, 38)] >>
     ELSE <<>>

\* a date issue without its note
Brief(it) ==
  [record_no |-> it.record_no, start_physical_line |-> it.start_physical_line,
   severity |-> it.severity, issue_type |-> it.issue_type,
   col9 |-> it.col9, col17 |-> it.col17]

WantedIssue(i, severity, issue_type) ==
  [record_no |-> i - 1, start_physical_line |-> log[i].start,
   severity |-> severity, issue_type |-> issue_type,
   col9 |-> Column(log[i].row, 9), col17 |-> Column(log[i].row, 17)]

\* the ERROR the date rule asks of log[i], if any
WantedError(i) ==
  IF RealDateTime(Column(log[i].row, 9)) THEN <<>>
  ELSE <<WantedIssue(i, "ERROR", "COL9_MISSING_OR_INVALID")>>

\* the WARN the date rule asks of log[i], if any
WantedWarn(i) ==
  LET c9 == Column(log[i].row, 9)
      c17 == Column(log[i].row, 17)
  IN IF c17 = <<>> THEN <<WantedIssue(i, "WARN", "COL17_EMPTY")>>
     ELSE IF ~RealDateTime(c17) THEN <<WantedIssue(i, "WARN", "COL17_INVALID")>>
     ELSE IF RealDateTime(c9) /\ SubSeq(c9, 1, 10) # SubSeq(c17, 1, 10)
          THEN <<WantedIssue(i, "WARN", "DATE_MISMATCH")>>
     ELSE <<>>

\* W(2) \o W(3) \o ... over the data records processed so far
RECURSIVE Gather(_, _)
Gather(W(_), i) ==
  IF i < 2 THEN <<>>
  ELSE Gather(W, i - 1) \o (IF Processed(i) THEN W(i) ELSE <<>>)

RECURSIVE Briefs(_)
Briefs(its) == IF its = <<>> THEN <<>> ELSE <<Brief(Head(its))>> \o Briefs(Tail(its))

IsERROR(it) == it.severity = "ERROR"
IsWARN(it) == it.severity = "WARN"

\* ---------------------------------------------------------------------
\* C1: after any prefix of the records, and in the summary that is returned,
\* count_error is the number of ERROR issues, count_warn the number of WARN
\* issues, and total_checked_cells is count_col9_ok + count_col17_ok.
\* ---------------------------------------------------------------------
CountsAgree(d) ==
  /\ d.count_error = Len(SelectSeq(d.issues, IsERROR))
  /\ d.count_warn = Len(SelectSeq(d.issues, IsWARN))
  /\ d.total_checked_cells = d.count_col9_ok + d.count_col17_ok

\* C1: the counters agree with the issues after every record, and in the
\* summary that is returned
C1_CountsMatchIssues ==
  /\ CountsAgree(frame)
  /\ frame.pc = "returned" => CountsAgree(result.date_summary)

\* a returned summary with an ERROR, a WARN and an accepted cell in it
C1_Witness ==
  /\ frame.pc = "returned"
  /\ result.date_summary.count_error >= 1
  /\ result.date_summary.count_warn >= 2
  /\ result.date_summary.total_checked_cells >= 2

\* ---------------------------------------------------------------------
\* C3: the header record adds no data record, no issue and no count,
\* whatever its cells hold; it moves total_physical_lines and the start of
\* the next record, and the first data record is number 1.
\* ---------------------------------------------------------------------
C3_HeaderIgnored ==
  /\ frame.record_no = 1 =>
       /\ frame.total_data_records = 0
       /\ frame.error_details = <<>> /\ frame.issues = <<>>
       /\ frame.total_checked_cells = 0
       /\ frame.count_col9_ok = 0 /\ frame.count_col17_ok = 0
       /\ frame.count_warn = 0 /\ frame.count_error = 0
       /\ log[1].start = 1
       /\ frame.total_physical_lines = log[1].end
       /\ frame.total_physical_lines >= 1
  /\ Len(log) >= 2 => log[2].start = log[1].end + 1
  /\ \A k \in 1..Len(frame.issues) :
       /\ frame.issues[k].start_physical_line > log[1].end
       /\ frame.issues[k].start_physical_line = log[2].start
            <=> frame.issues[k].record_no = 1
  /\ \A k \in 1..Len(frame.error_details) :
       frame.error_details[k].row > log[1].end
  /\ frame.total_data_records = Cardinality(DataIndices)

\* a two-line header whose cells break both rules, then a data record that
\* is reported as record 1 on line 3
C3_Witness ==
  /\ Len(log) = 2
  /\ log[1].end = 2
  /\ WantedFinancial(1) # <<>> /\ WantedError(1) # <<>>
  /\ frame.issues # <<>>
  /\ frame.issues[1].record_no = 1 /\ frame.issues[1].start_physical_line = 3

\* ---------------------------------------------------------------------
\* C5: a data record gets exactly one financial issue if it has at least 38
\* cells, column 25 trimmed is Z00014 and column 38 trimmed is neither 3000
\* nor 5000, and none otherwise; the issue carries the record's start line
\* and the trimmed columns 3, 11 and 38; the date cells play no part.
\* ---------------------------------------------------------------------
C5_FinancialRule ==
  frame.error_details = Gather(WantedFinancial, Len(log))

\* a 38-cell record with Z00014 and 4000 was reported
C5_Witness ==
  /\ frame.pc = "loop"
  /\ Len(log) = 2
  /\ Len(log[2].row) = 38
  /\ Len(frame.error_details) = 1
  /\ frame.error_details[1].col_38 = <<"4", "0", "0", "0">>
  /\ frame.error_details[1].store_name = <<"S", "t">>

\* ---------------------------------------------------------------------
\* C6: column 9 trimmed is accepted iff it is YYYY/MM/DD HH:MM:SS (digits 0
\* to 9) and a real date and time.  Not accepted: exactly one ERROR issue of
\* the kind COL9_MISSING_OR_INVALID and one more in count_error,
\* count_col9_ok as it was.  Accepted: no ERROR issue, one more in
\* count_col9_ok and one more in total_checked_cells.
\* ---------------------------------------------------------------------
Accepted9 == {i \in DataIndices : RealDateTime(Column(log[i].row, 9))}
Accepted17 == {i \in DataIndices : RealDateTime(Column(log[i].row, 17))}

\* C6 as claimed.  It fails on a cell such as U+FF12 "024/05/01 09:00:00":
\* \d and strptime's %Y take the full-width digit, so the cell is accepted.
C6_MandatoryDate ==
  /\ Briefs(SelectSeq(frame.issues, IsERROR)) = Gather(WantedError, Len(log))
  /\ frame.count_error = Cardinality(DataIndices \ Accepted9)
  /\ frame.count_col9_ok = Cardinality(Accepted9)
  /\ frame.total_checked_cells = Cardinality(Accepted9) + frame.count_col17_ok

\* ---------------------------------------------------------------------
\* C7: column 17 trimmed decides the WARN: empty gives one COL17_EMPTY
\* whatever column 9 is; not a real date-time gives one COL17_INVALID; a real
\* date-time gives a DATE_MISMATCH iff column 9 is a real date-time too and
\* the year/month/day parts differ, and nothing otherwise.
\* ---------------------------------------------------------------------
\* C7 as claimed.  It fails where C6 fails: a column 17 with a full-width
\* digit in its year is taken as a date, compared with column 9, and gets no
\* COL17_INVALID.
C7_SecondaryDate ==
  /\ Briefs(SelectSeq(frame.issues, IsWARN)) = Gather(WantedWarn, Len(log))
  /\ frame.count_col17_ok = Cardinality(Accepted17)

\* ---------------------------------------------------------------------
\* C9: when the call returns, both rules were applied to every data record
\* in order, total_data_records is the number of records less the header
\* (zero without records), and total_physical_lines is the last line of the
\* last record, whatever issues earlier records produced.
\* ---------------------------------------------------------------------
\* the date issues the two date checks give for log[i] taken alone
DateIssuesOf(i) ==
  LET col9 == cell(log[i].row, DATE_COL_9)
      col17 == cell(log[i].row, DATE_COL_17)
      alone == col9_check(InitFrame(<<>>), i - 1, log[i].start, col9, col17)
  IN col17_check(alone, i - 1, log[i].start, col9, col17).issues

\* C9: a call that returns has read the whole text; its financial issues
\* are those the financial rule asks of each data record, and its date
\* issues those the date checks give for each data record, in record order;
\* total_records and total_physical_lines are as above.
C9_ScanRunsToTheEnd ==
  frame.pc = "returned" =>
    /\ frame.reader.pos > Len(frame.csv_text)
    /\ result.total_records = (IF Len(log) = 0 THEN 0 ELSE Len(log) - 1)
    /\ result.total_physical_lines = (IF Len(log) = 0 THEN 0 ELSE log[Len(log)].end)
    /\ result.error_details = Gather(WantedFinancial, Len(log))
    /\ result.date_summary.issues = Gather(DateIssuesOf, Len(log))
    /\ result.error_found = (result.error_details # <<>>)

\* two data records, each with a financial issue and date issues, returned
C9_Witness ==
  /\ frame.pc = "returned"
  /\ result.total_records = 2
  /\ WantedFinancial(2) # <<>> /\ DateIssuesOf(2) # <<>>
  /\ WantedFinancial(3) # <<>> /\ DateIssuesOf(3) # <<>>
  /\ Len(result.error_details) = 2

\* ---------------------------------------------------------------------
\* C2: each record starts on the line after the one the record before it
\* ends on, the first on line 1, and a record whose quoted cells hold k line
\* breaks ends k lines after it starts.
\* ---------------------------------------------------------------------
\* a line break ends at position i of s: "\n", or "\r" not followed by "\n"
BreakAt(s, i) ==
  \/ s[i] = "\n"
  \/ s[i] = "\r" /\ ~(i < Len(s) /\ s[i + 1] = "\n")

LineBreaks(s) == Cardinality({i \in 1..Len(s) : BreakAt(s, i)})

RECURSIVE EmbeddedBreaks(_)
EmbeddedBreaks(row) ==
  IF row = <<>> THEN 0 ELSE LineBreaks(Head(row)) + EmbeddedBreaks(Tail(row))

Contiguous ==
  \A i \in 1..Len(log) :
    log[i].start = (IF i = 1 THEN 1 ELSE log[i - 1].end + 1)

\* C2 as claimed: records are contiguous from line 1, and every record ends
\* as many lines after its start as its cells hold line breaks
C2_AsClaimed ==
  /\ Contiguous
  /\ \A i \in 1..Len(log) :
       log[i].end = log[i].start + EmbeddedBreaks(log[i].row)

\* the text ends with a line break, and the end of the text cut log[i] off
\* inside an open quoted cell: that last break opens no further line
EndsInsideQuotes(i) ==
  /\ log[i].open_at_end
  /\ frame.csv_text # <<>>
  /\ frame.csv_text[Len(frame.csv_text)] \in {"\n", "\r"}

\* C2 as amended: records are contiguous from line 1, and a record ends as
\* many lines after its start as its cells hold line breaks, less one if the
\* text ends with a line break inside a quoted cell that is still open
C2_LineAccounting ==
  /\ Contiguous
  /\ \A i \in 1..Len(log) :
       log[i].end = log[i].start + EmbeddedBreaks(log[i].row)
                      - (IF EndsInsideQuotes(i) THEN 1 ELSE 0)

\* a record with a line break inside a closed quoted cell, and a record after it
C2_Witness ==
  /\ Len(log) = 2
  /\ EmbeddedBreaks(log[1].row) = 1 /\ ~log[1].open_at_end
  /\ log[1].end = 2
  /\ log[2].start = 3

\* ---------------------------------------------------------------------
\* C4: the call succeeds on every input of at most MAX_PHYSICAL_LINES
\* physical lines and fails with the limit error on every input of more,
\* whether the extra line is a further record or a line break in a quoted
\* cell, and also when the record that crosses the ceiling is the header.
\* ---------------------------------------------------------------------
\* the lines of a text as an editor counts them
PhysicalLines(text) ==
  LineBreaks(text)
    + (IF text # <<>> /\ text[Len(text)] \notin {"\n", "\r"} THEN 1 ELSE 0)

Finished == frame.pc \in {"returned", "raised"}

Decoded(u) == cp932_decode(u.raw).text

\* the file decodes and check_and_analyze returns on it
Succeeds(u) ==
  /\ cp932_decode(u.raw).ok
  /\ run_loop(InitFrame(Decoded(u))).pc = "returned"

\* what main stores for a file that succeeds
Stored(u) == result_dict(return_value(run_loop(InitFrame(Decoded(u)))), u.name)

\* this step is a run of main that ends in a fatal condition
FatalRunEnds ==
  \/ mpc = "analyzing" /\ frame.pc = "raised" /\ mpc' = "idle"
  \/ /\ mpc = "idle" /\ mpc' = "idle"
     /\ uploaded' \in Files /\ NotCached(uploaded')
     /\ ~cp932_decode(uploaded'.raw).ok

NothingHandedOut ==
  /\ frame.pc \in {"loop", "idle"} => result = None
  /\ frame.pc = "raised" => result = [exception |-> frame.exc]
  /\ session_state.last_result # None =>
       \E v \in Files : Succeeds(v) /\ session_state.last_result = Stored(v)
  /\ screen.kind = "error" => uploaded \in Files /\ ~Succeeds(uploaded)

\* C8: nothing but the exception leaves a call that raised, last_result only
\* ever holds the result of a file that succeeds, and a run of main that
\* ends fatally shows the error and leaves last_result as it was
C8_FatalRunYieldsNothing ==
  /\ []NothingHandedOut
  /\ [][ FatalRunEnds =>
           /\ screen'.kind = "error"
           /\ session_state'.last_result = session_state.last_result ]_vars

\* the ceiling was crossed after data records had been counted, and the run
\* of main ended
C8_Witness ==
  /\ mpc = "idle"
  /\ screen = [kind |-> "error", exc |-> "ValueError"]
  /\ uploaded.name = "c.csv"
  /\ session_state.last_result # None

\* ---------------------------------------------------------------------
\* C10: whenever main renders a result, it is the result check_and_analyze
\* computes from the file that is uploaded now.
\* ---------------------------------------------------------------------
C10_RenderedResultIsOfUploadedFile ==
  screen.kind = "result" =>
    /\ uploaded \in Files
    /\ Succeeds(uploaded)
    /\ screen.shown = Stored(uploaded)

====
